---------------------------- MODULE Spec2Model ----------------------------
(***************************************************************************)
(* IMU heart-rate estimation (sol_b.py): magnitude reduction, Butterworth  *)
(* band-pass design and causal application, windowed spectral peak         *)
(* extraction, frequency-to-BPM conversion, and the script's main block.   *)
(*                                                                         *)
(* Number representation.  The script computes in binary floating point.   *)
(* Here a signal sample, a window value, a twiddle factor and a filter     *)
(* coefficient are fixed-point integers counting hundredths (1.00 is 100), *)
(* products are rounded back to hundredths, and square roots are rounded   *)
(* down to the next hundredth.  Frequencies and rates are exact rationals  *)
(* [num, den] with den > 0.                                                *)
(***************************************************************************)
EXTENDS Integers, Sequences, FiniteSets, TLC

VARIABLES pc, x, y, z, magnitude, cutoff, fs, order, coef,
          filtered_magnitude, dominant_frequency, heart_rate,
          stdout, exc, stages

vars == <<pc, x, y, z, magnitude, cutoff, fs, order, coef,
          filtered_magnitude, dominant_frequency, heart_rate,
          stdout, exc, stages>>

\* Bounds of the model.
MaxChan == 2
MaxLen == 6
MaxSamples == 5
MaxFilt == 3
MaxOrder == 2

\* "No exception".
None == "None"

---------------------------------------------------------------------------
\* Arithmetic helpers

Abs(n) == IF n < 0 THEN -n ELSE n

\* Fixed-point product, rounded to the nearest hundredth.
FxMul(a, b) == (a * b + 50) \div 100

RECURSIVE SqrtSearch(_, _, _)
SqrtSearch(v, lo, hi) ==
    IF lo >= hi THEN lo
    ELSE LET mid == (lo + hi + 1) \div 2
         IN IF mid * mid <= v THEN SqrtSearch(v, mid, hi)
                              ELSE SqrtSearch(v, lo, mid - 1)

\* The largest r with r*r <= v (v >= 0).
ISqrt(v) == SqrtSearch(v, 0, IF v < 46340 THEN v ELSE 46340)

\* Rationals: sign carried by num.
Rat(n, d) == IF d < 0 THEN [num |-> -n, den |-> -d] ELSE [num |-> n, den |-> d]
RatOfInt(n) == Rat(n, 1)
RatMul(a, b) == Rat(a.num * b.num, a.den * b.den)
\* Division; the caller has excluded b.num = 0.
RatDiv(a, b) == Rat(a.num * b.den, a.den * b.num)
RatLess(a, b) == a.num * b.den < b.num * a.den
RatLeq(a, b) == a.num * b.den <= b.num * a.den

\* A call's outcome: a value or a raised exception.
Ok(v) == [ok |-> TRUE, value |-> v]
Raise(e) == [ok |-> FALSE, exc |-> e]

---------------------------------------------------------------------------
\* numpy / scipy operations the script calls

\* Length of the elementwise result of two 1-D arrays under numpy
\* broadcasting, or -1 when the shapes cannot be broadcast together.
BroadcastLen(m, n) ==
    IF m = n THEN m
    ELSE IF m = 1 THEN n
    ELSE IF n = 1 THEN m
    ELSE -1

\* Element i (1-based) of a 1-D array broadcast to a longer length.
Bc(s, i) == IF Len(s) = 1 THEN s[1] ELSE s[i]

\* round(100 * cos(2 pi j / M)) and round(100 * sin(2 pi j / M)), row M, column j + 1.
CosTab ==
    << <<100>>,
       <<100, -100>>,
       <<100, -50, -50>>,
       <<100, 0, -100, 0>>,
       <<100, 31, -81, -81, 31>>,
       <<100, 50, -50, -100, -50, 50>>,
       <<100, 62, -22, -90, -90, -22, 62>>,
       <<100, 71, 0, -71, -100, -71, 0, 71>>,
       <<100, 77, 17, -50, -94, -94, -50, 17, 77>> >>

SinTab ==
    << <<0>>,
       <<0, 0>>,
       <<0, 87, -87>>,
       <<0, 100, 0, -100>>,
       <<0, 95, 59, -59, -95>>,
       <<0, 87, 87, 0, -87, -87>>,
       <<0, 78, 97, 43, -43, -97, -78>>,
       <<0, 71, 100, 71, 0, -71, -100, -71>>,
       <<0, 64, 98, 87, 34, -34, -87, -98, -64>> >>

Cos(j, M) == CosTab[M][(j % M) + 1]
Sin(j, M) == SinTab[M][(j % M) + 1]

\* np.hamming(N): empty for N < 1, ones for N = 1, else
\* 0.54 - 0.46 cos(2 pi i / (N - 1)) for i = 0 .. N-1.
Hamming(N) ==
    IF N < 1 THEN << >>
    ELSE IF N = 1 THEN << 100 >>
    ELSE [i \in 1..N |-> 54 - FxMul(46, Cos(i - 1, N - 1))]

\* Elementwise product data * window (equal lengths).
Windowed(d, w) == [i \in 1..Len(d) |-> FxMul(d[i], w[i])]

RECURSIVE SumTo(_, _)
SumTo(f, n) == IF n = 0 THEN 0 ELSE f[n] + SumTo(f, n - 1)

\* Bin k (0-based) of the discrete Fourier transform of d, as [re, im].
DftBin(d, k) ==
    LET N == Len(d)
    IN [re |-> SumTo([n \in 1..N |-> FxMul(d[n], Cos(k * (n - 1), N))], N),
        im |-> -SumTo([n \in 1..N |-> FxMul(d[n], Sin(k * (n - 1), N))], N)]

\* np.abs of a complex value.
CAbs(c) == ISqrt(c.re * c.re + c.im * c.im)

\* Variant: the N//2 + 1 bins of a one-sided transform.
HalfLenOneSided(N) == N \div 2 + 1

\* The number of bins kept by the slices [:N//2].
HalfLen(N) == N \div 2

\* np.abs(fft(d)[:N//2]): magnitudes of the first N//2 bins.
HalfMagnitudes(d) ==
    [k \in 1..HalfLen(Len(d)) |-> CAbs(DftBin(d, k - 1))]

\* fftfreq(N, 1 / fs)[:N//2]: bin k (0-based) is k * fs / N.
PositiveFrequencies(N, rate) ==
    [k \in 1..HalfLen(N) |-> [num |-> (k - 1) * rate, den |-> N]]

\* s[1:] of a Python sequence.
Slice1(s) == IF Len(s) <= 1 THEN << >> ELSE Tail(s)


\* Variant: a scan that keeps the last maximum.
RECURSIVE ArgMaxScanLast(_, _, _)
ArgMaxScanLast(s, i, best) ==
    IF i > Len(s) THEN best
    ELSE IF s[i] >= s[best] THEN ArgMaxScanLast(s, i + 1, i)
    ELSE ArgMaxScanLast(s, i + 1, best)

\* np.argmax of a non-empty 1-D array: a left-to-right scan that keeps the
\* first maximum; i is the next 1-based position, best the position kept.
RECURSIVE ArgMaxScan(_, _, _)
ArgMaxScan(s, i, best) ==
    IF i > Len(s) THEN best
    ELSE IF s[i] > s[best] THEN ArgMaxScan(s, i + 1, i)
    ELSE ArgMaxScan(s, i + 1, best)

\* The 0-based index np.argmax returns (the caller has excluded empty s).
ArgMax(s) == ArgMaxScan(s, 2, 1) - 1

RECURSIVE Binom(_, _)
Binom(n, k) == IF k = 0 \/ k = n THEN 1 ELSE Binom(n - 1, k - 1) + Binom(n - 1, k)

\* Numerator taps of a digital Butterworth band-pass of order n with gain g:
\* g * (z^2 - 1)^n, which has 2n + 1 taps, the odd ones zero.
BandNumerator(n, g) ==
    [i \in 1..(2 * n + 1) |->
        IF (i - 1) % 2 = 1 THEN 0
        ELSE LET j == (i - 1) \div 2
             IN (IF j % 2 = 0 THEN 1 ELSE -1) * Binom(n, j) * g]

\* Denominator taps: 2n + 1 taps, the leading one 1.00.
BandDenominator(n, a1) ==
    [i \in 1..(2 * n + 1) |-> IF i = 1 THEN 100 ELSE IF i = 2 THEN a1 ELSE 0]

\* The (b, a) pairs scipy.signal.butter(n, [low, high], btype='band') may
\* return.  The taps' values come from the library's pole placement, which
\* is not computed here: the pairs keep the result's shape (2n + 1 taps
\* each, a[0] = 1, the numerator's pattern) and draw the gain and the first
\* feedback tap from a few values.  Order 0 yields b = [1.], a = [1.].
ButterCoefs(n) ==
    IF n = 0 THEN { [b |-> << 100 >>, a |-> << 100 >>] }
    ELSE { [b |-> BandNumerator(n, g), a |-> BandDenominator(n, a1)] :
             g \in {5, 10}, a1 \in {-50, 0, 50} }

\* scipy.signal.butter(N, [low, high], btype='band'): the checks of
\* iirfilter and buttap, then the design.  Ok's value is the set of pairs
\* the design may return.
Butter(n, low, high) ==
    IF ~ RatLess(low, high) THEN Raise("ValueError")
    ELSE IF n < 0 THEN Raise("ValueError")
    ELSE IF RatLeq(low, RatOfInt(0)) \/ RatLeq(RatOfInt(1), high)
         THEN Raise("ValueError")
    ELSE Ok(ButterCoefs(n))

\* Sample n (1-based) of scipy.signal.lfilter(b, a, d) given the earlier
\* outputs yprev: sum b[k] d[n-k] - sum a[k] yprev[n-k], a[0] = 1.
LfilterSample(b, a, d, yprev, n) ==
    SumTo([k \in 1..Len(b) |-> IF n - (k - 1) >= 1
                                THEN FxMul(b[k], d[n - (k - 1)]) ELSE 0], Len(b))
    - SumTo([k \in 1..Len(a) |-> IF k >= 2 /\ n - (k - 1) >= 1
                                  THEN FxMul(a[k], yprev[n - (k - 1)]) ELSE 0], Len(a))

RECURSIVE LfilterUpTo(_, _, _, _)
LfilterUpTo(b, a, d, n) ==
    IF n = 0 THEN << >>
    ELSE LET yprev == LfilterUpTo(b, a, d, n - 1)
         IN Append(yprev, LfilterSample(b, a, d, yprev, n))

\* scipy.signal.lfilter(b, a, d): one forward pass over d.
Lfilter(b, a, d) == LfilterUpTo(b, a, d, Len(d))

Reverse(s) == [i \in 1..Len(s) |-> s[Len(s) + 1 - i]]

---------------------------------------------------------------------------
\* The script's functions

\* Variant: the z channel left out of the sum of squares.
calculate_magnitude_xy(xs, ys, zs) ==
    LET l1 == BroadcastLen(Len(xs), Len(ys))
        l2 == IF l1 < 0 THEN -1 ELSE BroadcastLen(l1, Len(zs))
    IN IF l2 < 0 THEN Raise("ValueError")
       ELSE Ok([i \in 1..l2 |->
                   ISqrt(100 * (FxMul(Bc(xs, i), Bc(xs, i))
                                + FxMul(Bc(ys, i), Bc(ys, i))))])

\* calculate_magnitude(x, y, z)
calculate_magnitude(xs, ys, zs) ==
    LET l1 == BroadcastLen(Len(xs), Len(ys))
        l2 == IF l1 < 0 THEN -1 ELSE BroadcastLen(l1, Len(zs))
    IN IF l2 < 0 THEN Raise("ValueError")
       ELSE Ok([i \in 1..l2 |->
                   ISqrt(100 * (FxMul(Bc(xs, i), Bc(xs, i))
                                + FxMul(Bc(ys, i), Bc(ys, i))
                                + FxMul(Bc(zs, i), Bc(zs, i))))])

\* butter_bandpass(cutoff, fs, order)
butter_bandpass(c, rate, n) ==
    LET nyq == Rat(rate, 2)
    IN IF nyq.num = 0 THEN Raise("ZeroDivisionError")
       ELSE Butter(n, RatDiv(c[1], nyq), RatDiv(c[2], nyq))

\* Variant: forward-backward (zero-phase) filtering.
apply_filter_zero_phase(d, b, a) ==
    Reverse(Lfilter(b, a, Reverse(Lfilter(b, a, d))))

\* apply_filter(data, b, a)
apply_filter(d, b, a) == Lfilter(b, a, d)

\* Variant: the peak searched over every bin, DC included.
DominantIndexWithDC(mags) == ArgMax(mags)

\* The bin index stft_analysis selects from the half-spectrum magnitudes.
DominantIndex(mags) == ArgMax(Slice1(mags)) + 1

\* stft_analysis(data, fs)
stft_analysis(d, rate) ==
    LET N == Len(d)
        mags == HalfMagnitudes(Windowed(d, Hamming(N)))
    IN IF N = 0 THEN Raise("ValueError")                \* fft of no data
       ELSE IF rate = 0 THEN Raise("ZeroDivisionError") \* 1 / fs
       ELSE IF Slice1(mags) = << >> THEN Raise("ValueError")  \* argmax of nothing
       ELSE Ok(PositiveFrequencies(N, rate)[DominantIndex(mags) + 1])

\* Variant: the halving folded into the converter.
calculate_heart_rate_halved(f) == RatMul(f, RatOfInt(30))

\* calculate_heart_rate(dominant_frequency)
calculate_heart_rate(f) == RatMul(f, RatOfInt(60))

\* f"{v:.2f}": v rounded to hundredths (halves away from zero).
Fmt2(v) ==
    LET n == Abs(v.num)
        q == (200 * n + v.den) \div (2 * v.den)
    IN IF v.num < 0 THEN -q ELSE q

---------------------------------------------------------------------------
\* Inputs

SeqsUpTo(S, n) == UNION { [1..k -> S] : k \in 0..n }

\* Values of one channel, of one signal sample, and of the sample rate.
ChanVals == {-200, 0, 100}
SignalVals == {-100, 0, 100}
FsSet == {1, 50, 100}

\* The records load_and_process_data may decode: (x, y, z) per sample.
Triplets == { <<0, 0, 0>>, <<100, 0, 0>>, <<-200, 200, 100>> }

\* Exceptions, other than a missing file, that loading may raise.
LoadErrors == {"JSONDecodeError", "KeyError"}

\* Band edges (Hz), sample rates and orders offered to butter_bandpass.
CutVals == { Rat(-1, 2), Rat(0, 1), Rat(1, 2), Rat(3, 1), Rat(5, 1) }
BandFs == {-10, 0, 6, 10, 100}

\* Dominant frequencies offered to the rate converter: k * fs / N.
RateInputs == { Rat(k * f, n) : k \in -2..3, f \in {1, 100}, n \in {1, 3, 4, 6} }

\* Values of locals that are not assigned yet.
NoSignal == << >>
NoCoef == [b |-> << >>, a |-> << >>]
NoRat == Rat(0, 1)
NoExc == [type |-> None, at |-> None]

\* The script's constants: fs (line 74), cutoff (line 81), order (line 82).
MainFs == 100
MainCutoff == << Rat(1, 2), Rat(3, 1) >>
MainOrder == 5

---------------------------------------------------------------------------
\* The steps of the main block

Raised(e, stage) ==
    /\ exc' = [type |-> e, at |-> stage]
    /\ pc' = "except"

\* x, y, z = load_and_process_data(file_path)
LoadStep ==
    /\ pc = "load"
    /\ \/ /\ Raised("FileNotFoundError", "load")
          /\ UNCHANGED <<x, y, z, stages>>
       \/ /\ \E e \in LoadErrors : Raised(e, "load")
          /\ UNCHANGED <<x, y, z, stages>>
       \/ /\ \E recs \in SeqsUpTo(Triplets, MaxSamples) :
                /\ x' = [i \in 1..Len(recs) |-> recs[i][1]]
                /\ y' = [i \in 1..Len(recs) |-> recs[i][2]]
                /\ z' = [i \in 1..Len(recs) |-> recs[i][3]]
          /\ pc' = "magnitude"
          /\ stages' = Append(stages, "load")
          /\ UNCHANGED exc
    /\ UNCHANGED <<magnitude, cutoff, fs, order, coef, filtered_magnitude,
                   dominant_frequency, heart_rate, stdout>>

\* magnitude = calculate_magnitude(x, y, z)
MagnitudeStep ==
    /\ pc = "magnitude"
    /\ LET r == calculate_magnitude(x, y, z)
       IN IF r.ok
          THEN /\ magnitude' = r.value
               /\ pc' = "butter"
               /\ stages' = Append(stages, "magnitude")
               /\ UNCHANGED exc
          ELSE /\ Raised(r.exc, "magnitude")
               /\ UNCHANGED <<magnitude, stages>>
    /\ UNCHANGED <<x, y, z, cutoff, fs, order, coef, filtered_magnitude,
                   dominant_frequency, heart_rate, stdout>>

\* b, a = butter_bandpass(cutoff, fs, order)
ButterStep ==
    /\ pc = "butter"
    /\ LET r == butter_bandpass(cutoff, fs, order)
       IN IF r.ok
          THEN /\ \E c \in r.value : coef' = c
               /\ pc' = "filter"
               /\ stages' = Append(stages, "butter")
               /\ UNCHANGED exc
          ELSE /\ Raised(r.exc, "butter")
               /\ UNCHANGED <<coef, stages>>
    /\ UNCHANGED <<x, y, z, magnitude, cutoff, fs, order, filtered_magnitude,
                   dominant_frequency, heart_rate, stdout>>

\* filtered_magnitude = apply_filter(magnitude, b, a)
FilterStep ==
    /\ pc = "filter"
    /\ filtered_magnitude' = apply_filter(magnitude, coef.b, coef.a)
    /\ pc' = "stft"
    /\ stages' = Append(stages, "filter")
    /\ UNCHANGED <<x, y, z, magnitude, cutoff, fs, order, coef,
                   dominant_frequency, heart_rate, stdout, exc>>

\* dominant_frequency = stft_analysis(filtered_magnitude, fs)
StftStep ==
    /\ pc = "stft"
    /\ LET r == stft_analysis(filtered_magnitude, fs)
       IN IF r.ok
          THEN /\ dominant_frequency' = r.value
               /\ pc' = "rate"
               /\ stages' = Append(stages, "stft")
               /\ UNCHANGED exc
          ELSE /\ Raised(r.exc, "stft")
               /\ UNCHANGED <<dominant_frequency, stages>>
    /\ UNCHANGED <<x, y, z, magnitude, cutoff, fs, order, coef,
                   filtered_magnitude, heart_rate, stdout>>

\* heart_rate = calculate_heart_rate(dominant_frequency)
RateStep ==
    /\ pc = "rate"
    /\ heart_rate' = calculate_heart_rate(dominant_frequency)
    /\ pc' = "print_df"
    /\ stages' = Append(stages, "rate")
    /\ UNCHANGED <<x, y, z, magnitude, cutoff, fs, order, coef,
                   filtered_magnitude, dominant_frequency, stdout, exc>>

\* print(f"Dominant Frequency: {dominant_frequency:.2f} Hz")
PrintDfStep ==
    /\ pc = "print_df"
    /\ stdout' = Append(stdout, [line |-> "Dominant Frequency",
                                 arg |-> Fmt2(dominant_frequency)])
    /\ pc' = "print_hr"
    /\ UNCHANGED <<x, y, z, magnitude, cutoff, fs, order, coef,
                   filtered_magnitude, dominant_frequency, heart_rate, exc, stages>>

\* The value the script reports as the heart rate: heart_rate / 2.
ReportedRate(hr) == RatDiv(hr, RatOfInt(2))

\* print(f"Average Heart Rate: {heart_rate/2:.2f} BPM")
PrintHrStep ==
    /\ pc = "print_hr"
    /\ stdout' = Append(stdout, [line |-> "Average Heart Rate",
                                 arg |-> Fmt2(ReportedRate(heart_rate))])
    /\ pc' = "plot"
    /\ UNCHANGED <<x, y, z, magnitude, cutoff, fs, order, coef,
                   filtered_magnitude, dominant_frequency, heart_rate, exc, stages>>

\* plt.figure ... plt.show(): the plotting library may raise.
PlotStep ==
    /\ pc = "plot"
    /\ \/ /\ pc' = "done"
          /\ UNCHANGED exc
       \/ Raised("RuntimeError", "plot")
    /\ UNCHANGED <<x, y, z, magnitude, cutoff, fs, order, coef,
                   filtered_magnitude, dominant_frequency, heart_rate, stdout, stages>>

\* Variant: one message for every exception.
HandlerGeneric(e) == "An error occurred"

\* The message of the except clause that catches an exception of type e.
Handler(e) ==
    IF e = "FileNotFoundError" THEN "Error: File not found"
    ELSE "An error occurred"

\* except FileNotFoundError / except Exception as e
ExceptStep ==
    /\ pc = "except"
    /\ stdout' = Append(stdout, [line |-> Handler(exc.type), arg |-> exc.type])
    /\ pc' = "done"
    /\ UNCHANGED <<x, y, z, magnitude, cutoff, fs, order, coef,
                   filtered_magnitude, dominant_frequency, heart_rate, exc, stages>>

---------------------------------------------------------------------------
\* Specifications

\* What every specification starts from, given the program point.
Fresh(p) ==
    /\ pc = p
    /\ stdout = << >>
    /\ exc = NoExc
    /\ stages = << >>

\* The main block, from its first statement.
Init ==
    /\ Fresh("load")
    /\ x = NoSignal /\ y = NoSignal /\ z = NoSignal
    /\ magnitude = NoSignal
    /\ cutoff = MainCutoff /\ fs = MainFs /\ order = MainOrder
    /\ coef = NoCoef
    /\ filtered_magnitude = NoSignal
    /\ dominant_frequency = NoRat
    /\ heart_rate = NoRat

Next ==
    \/ LoadStep
    \/ MagnitudeStep
    \/ ButterStep
    \/ FilterStep
    \/ StftStep
    \/ RateStep
    \/ PrintDfStep
    \/ PrintHrStep
    \/ PlotStep
    \/ ExceptStep

Spec == Init /\ [][Next]_vars

\* calculate_magnitude on any three channels.
InitMag ==
    /\ Fresh("magnitude")
    /\ x \in SeqsUpTo(ChanVals, MaxChan)
    /\ y \in SeqsUpTo(ChanVals, MaxChan)
    /\ z \in SeqsUpTo(ChanVals, MaxChan)
    /\ magnitude = NoSignal
    /\ cutoff = MainCutoff /\ fs = MainFs /\ order = MainOrder
    /\ coef = NoCoef
    /\ filtered_magnitude = NoSignal
    /\ dominant_frequency = NoRat
    /\ heart_rate = NoRat

SpecMag == InitMag /\ [][MagnitudeStep]_vars

\* butter_bandpass on any band, sample rate and order.
InitBand ==
    /\ Fresh("butter")
    /\ x = NoSignal /\ y = NoSignal /\ z = NoSignal
    /\ magnitude = NoSignal
    /\ cutoff \in CutVals \X CutVals
    /\ fs \in BandFs
    /\ order \in -1..MaxOrder
    /\ coef = NoCoef
    /\ filtered_magnitude = NoSignal
    /\ dominant_frequency = NoRat
    /\ heart_rate = NoRat

SpecBand == InitBand /\ [][ButterStep]_vars

\* apply_filter on any signal with any designed coefficients.
InitFilter ==
    /\ Fresh("filter")
    /\ x = NoSignal /\ y = NoSignal /\ z = NoSignal
    /\ magnitude \in SeqsUpTo(SignalVals, MaxFilt)
    /\ cutoff = MainCutoff /\ fs = MainFs
    /\ order \in 0..MaxOrder
    /\ coef \in ButterCoefs(order)
    /\ filtered_magnitude = NoSignal
    /\ dominant_frequency = NoRat
    /\ heart_rate = NoRat

SpecFilter == InitFilter /\ [][FilterStep]_vars

\* stft_analysis on any signal.
InitStft ==
    /\ Fresh("stft")
    /\ x = NoSignal /\ y = NoSignal /\ z = NoSignal
    /\ magnitude = NoSignal
    /\ cutoff = MainCutoff /\ order = MainOrder
    /\ fs \in FsSet
    /\ coef = NoCoef
    /\ filtered_magnitude \in SeqsUpTo(SignalVals, MaxLen)
    /\ dominant_frequency = NoRat
    /\ heart_rate = NoRat

SpecStft == InitStft /\ [][StftStep]_vars

\* The main block from the rate conversion on, for any dominant frequency.
InitReport ==
    /\ Fresh("rate")
    /\ x = NoSignal /\ y = NoSignal /\ z = NoSignal
    /\ magnitude = NoSignal
    /\ cutoff = MainCutoff /\ fs = MainFs /\ order = MainOrder
    /\ coef = NoCoef
    /\ filtered_magnitude = NoSignal
    /\ dominant_frequency \in RateInputs
    /\ heart_rate = NoRat

NextReport ==
    \/ RateStep
    \/ PrintDfStep
    \/ PrintHrStep
    \/ PlotStep
    \/ ExceptStep

SpecReport == InitReport /\ [][NextReport]_vars

---------------------------------------------------------------------------
\* Properties

\* The half-spectrum magnitudes stft_analysis searches for its input.
SearchedMagnitudes ==
    HalfMagnitudes(Windowed(filtered_magnitude, Hamming(Len(filtered_magnitude))))

\* The bin whose frequency stft_analysis returned (fs > 0).
SelectedBin == dominant_frequency.num \div fs

StftReturned == pc = "rate"
StftFailed == pc = "except" /\ exc.at = "stft"

\* C1: whenever stft_analysis returns, the frequency it returns is that of a
\* bin k with 1 <= k <= N//2 - 1; bin 0 (DC) is never selected, whatever
\* its magnitude.
C1_PeakNeverDC ==
    StftReturned =>
        LET N == Len(filtered_magnitude)
        IN /\ dominant_frequency = [num |-> SelectedBin * fs, den |-> N]
           /\ SelectedBin \in 1..(N \div 2 - 1)

\* stft_analysis returned for a signal whose DC magnitude strictly exceeds
\* every other magnitude of the half spectrum.
C1_Witness ==
    /\ StftReturned
    /\ Len(SearchedMagnitudes) >= 3
    /\ \A j \in 2..Len(SearchedMagnitudes) :
          SearchedMagnitudes[1] > SearchedMagnitudes[j]

\* C2: the selected bin k has a magnitude no smaller than that of any bin in
\* [1, N//2 - 1] and strictly greater than that of every bin in [1, k - 1]:
\* among equal maxima the smallest index is returned.
C2_FirstMaximumWins ==
    StftReturned =>
        LET mags == SearchedMagnitudes
            k == SelectedBin
        IN /\ k \in 1..(Len(mags) - 1)
           /\ \A j \in 1..(Len(mags) - 1) : mags[k + 1] >= mags[j + 1]
           /\ \A j \in 1..(k - 1) : mags[k + 1] > mags[j + 1]

\* stft_analysis returned for a signal whose maximum non-DC magnitude is
\* non-zero and shared by two bins.
C2_Witness ==
    /\ StftReturned
    /\ \E i, j \in 2..Len(SearchedMagnitudes) :
          /\ i < j
          /\ SearchedMagnitudes[i] = SearchedMagnitudes[j]
          /\ SearchedMagnitudes[i] > 0
          /\ \A m \in 2..Len(SearchedMagnitudes) :
                SearchedMagnitudes[m] <= SearchedMagnitudes[i]

\* C3 (as amended): with a positive sample rate, stft_analysis fails if and
\* only if the signal has fewer than 4 samples, and it fails with ValueError.
C3_FailsIffBelowFour ==
    pc # "stft" =>
        /\ StftFailed <=> Len(filtered_magnitude) < 4
        /\ StftFailed => exc.type = "ValueError"
        /\ ~ StftFailed => StftReturned

\* C3 as stated: stft_analysis fails if and only if the signal has fewer
\* than 2 samples, and returns a dominant frequency for every N >= 2.
C3_FailsIffBelowTwo ==
    pc # "stft" =>
        /\ StftFailed <=> Len(filtered_magnitude) < 2
        /\ ~ StftFailed => StftReturned

\* stft_analysis failed on a signal of 2 or 3 samples.
C3_Witness ==
    /\ StftFailed
    /\ Len(filtered_magnitude) \in {2, 3}

AllZero(s) == \A i \in 1..Len(s) : s[i] = 0

\* C4 (as amended): for an all-zero signal of length N >= 4, stft_analysis
\* returns the frequency of bin 1, fs / N, and raises nothing.
C4_FlatReturnsBinOne ==
    (pc # "stft" /\ AllZero(filtered_magnitude) /\ Len(filtered_magnitude) >= 4) =>
        /\ StftReturned
        /\ dominant_frequency.num * Len(filtered_magnitude)
             = fs * dominant_frequency.den

\* C4 as stated: the same for every length N >= 2.
C4_FlatReturnsBinOneFromTwo ==
    (pc # "stft" /\ AllZero(filtered_magnitude) /\ Len(filtered_magnitude) >= 2) =>
        /\ StftReturned
        /\ dominant_frequency.num * Len(filtered_magnitude)
             = fs * dominant_frequency.den

\* stft_analysis returned for an all-zero signal with more than one non-DC
\* bin to choose from.
C4_Witness ==
    /\ StftReturned
    /\ AllZero(filtered_magnitude)
    /\ Len(filtered_magnitude) >= 6

SameLength == Len(x) = Len(y) /\ Len(y) = Len(z) /\ Len(x) >= 1

\* C5 as stated: calculate_magnitude fails, and returns no signal, whenever
\* the three sequences do not all have the same length N >= 1.
C5_MismatchRejected ==
    (pc # "magnitude" /\ ~ SameLength) => (pc = "except" /\ exc.at = "magnitude")

\* C6: for equal-length x, y, z of length N >= 1, calculate_magnitude
\* returns m of length N with m[i] >= 0 and m[i] the square root of
\* x[i]^2 + y[i]^2 + z[i]^2 (to the resolution of one hundredth), and
\* leaves x, y, z unchanged.
C6_MagnitudeIsRootOfSquares ==
    [][ (pc = "magnitude" /\ SameLength) =>
          /\ pc' = "butter"
          /\ x' = x /\ y' = y /\ z' = z
          /\ Len(magnitude') = Len(x)
          /\ \A i \in 1..Len(x) :
                LET s == x[i] * x[i] + y[i] * y[i] + z[i] * z[i]
                    m == magnitude'[i]
                IN /\ m >= 0
                   /\ m * m <= s
                   /\ s < (m + 1) * (m + 1) ]_vars

\* calculate_magnitude returned for two samples, one with a negative
\* component and a sum of squares that is a perfect square.
C6_Witness ==
    /\ pc = "butter"
    /\ Len(x) = 2 /\ Len(y) = 2 /\ Len(z) = 2
    /\ x[1] < 0
    /\ magnitude[1] * magnitude[1] = x[1] * x[1] + y[1] * y[1] + z[1] * z[1]
    /\ magnitude[1] > 0

\* 0 < low_hz < high_hz < fs/2 and order >= 1.
ValidDesign ==
    /\ RatLess(RatOfInt(0), cutoff[1])
    /\ RatLess(cutoff[1], cutoff[2])
    /\ RatLess(cutoff[2], Rat(fs, 2))
    /\ order >= 1

\* C7 as stated: butter_bandpass fails, returning no coefficients, exactly
\* when the configuration violates 0 < low < high < fs/2 or order >= 1.
C7_InvalidDesignRejected ==
    pc # "butter" =>
        ((pc = "except" /\ exc.at = "butter") <=> ~ ValidDesign)

\* C8: apply_filter returns a signal as long as its input, and two inputs
\* that agree on samples 0..i give outputs that agree on samples 0..i.
C8_CausalSameLength ==
    pc = "stft" =>
        /\ Len(filtered_magnitude) = Len(magnitude)
        /\ \A d2 \in [1..Len(magnitude) -> SignalVals] :
              LET f2 == apply_filter(d2, coef.b, coef.a)
              IN /\ Len(f2) = Len(d2)
                 /\ \A i \in 1..Len(magnitude) :
                       SubSeq(d2, 1, i) = SubSeq(magnitude, 1, i)
                         => SubSeq(f2, 1, i) = SubSeq(filtered_magnitude, 1, i)

\* apply_filter returned for a signal of at least 3 samples, filtered with a
\* recursive design, whose later samples reach the output.
C8_Witness ==
    /\ pc = "stft"
    /\ Len(magnitude) >= 3
    /\ order >= 1
    /\ coef.a[2] # 0
    /\ filtered_magnitude[1] = 0
    /\ filtered_magnitude[Len(magnitude)] # 0

Reported(kind) == \E i \in 1..Len(stdout) : stdout[i].line = kind

\* C9: calculate_heart_rate returns dominant_frequency * 60 for every
\* input, negative ones included; the reported heart rate is
\* dominant_frequency * 60 / 2, and the reported dominant frequency is
\* dominant_frequency, each to two decimals.
C9_RateIsSixtyTimes ==
    LET f == dominant_frequency
    IN /\ pc # "rate" => heart_rate.num * f.den = 60 * f.num * heart_rate.den
       /\ \A i \in 1..Len(stdout) :
             /\ stdout[i].line = "Average Heart Rate"
                  => 2 * Abs(stdout[i].arg * f.den - 3000 * f.num) <= f.den
             /\ stdout[i].line = "Dominant Frequency"
                  => 2 * Abs(stdout[i].arg * f.den - 100 * f.num) <= f.den

\* A run that converted and reported a negative dominant frequency.
C9_Witness ==
    /\ pc = "done"
    /\ exc = NoExc
    /\ dominant_frequency.num < 0
    /\ Reported("Average Heart Rate")
    /\ Reported("Dominant Frequency")

CoreStages == {"load", "magnitude", "butter", "filter", "stft", "rate"}

\* C10: a failure of loading or of a core stage ends the run with nothing
\* reported but the failure; a missing file is reported as such and every
\* other exception as a failed computation; results are reported only once
\* loading and the four stages have completed in order.
C10_FailureReportsNothing ==
    /\ exc.at \in CoreStages =>
          /\ pc \in {"except", "done"}
          /\ ~ Reported("Dominant Frequency")
          /\ ~ Reported("Average Heart Rate")
          /\ pc = "done" => Len(stdout) = 1
    /\ (pc = "done" /\ exc # NoExc) =>
          stdout[Len(stdout)].line =
             IF exc.type = "FileNotFoundError"
             THEN "Error: File not found" ELSE "An error occurred"
    /\ Reported("Error: File not found") =>
          exc = [type |-> "FileNotFoundError", at |-> "load"]
    /\ (Reported("Dominant Frequency") \/ Reported("Average Heart Rate")) =>
          stages = << "load", "magnitude", "butter", "filter", "stft", "rate" >>

\* A run whose spectral analysis failed and that ended reporting only the
\* failed computation.
C10_Witness ==
    /\ pc = "done"
    /\ exc = [type |-> "ValueError", at |-> "stft"]
    /\ stdout = << [line |-> "An error occurred", arg |-> "ValueError"] >>

=============================================================================
